---- MODULE Spec2Model ----
(***************************************************************************)
(* The /convert pipeline of TTSstudio: the Express handler of              *)
(* src/unnamed/part_000 (gtts and edge engines, keeps the artifact and     *)
(* answers with its URL) and the handler of src/server.js (gtts only,      *)
(* streams the artifact and unlinks it afterwards).  One process runs one  *)
(* of the two files; both work on the same uploads/ and public/audio/      *)
(* directories.                                                            *)
(*                                                                         *)
(* A handler is an async function: the code between two awaits runs        *)
(* without interleaving, so every action below is one such stretch, from   *)
(* the completion of the awaited operation to the next await (or to the    *)
(* response).  File system calls and engine calls are the environment:     *)
(* each may succeed or fail.                                               *)
(***************************************************************************)
EXTENDS Integers, Sequences, FiniteSets, TLC

VARIABLES
    app,             \* which file the process runs: "part_000" or "server"
    now,             \* Date.now()
    uploads,         \* uploads/ : set of [path, content]
    audioDir,        \* public/audio/ : set of file names
    edgeTTS,         \* the lazily required edge-tts module (TRUE once loaded)
    req,             \* req.file / req.body of every request
    pc,              \* where each invocation of the handler is suspended
    uploadPath,      \* req.file.path
    textToConvert,
    voiceCode,
    outputFileName,
    timestamp,       \* the Date.now() reading the output name was built from
    engineCall,      \* the engine invocation an invocation has made, if any
    responses,       \* what has been sent on res, in order
    resolverCalls,   \* how often the gender/voice mapping ran for the request
    readState,       \* outcome of readFile and unlink of the upload
    synth,           \* outcome of the engine call
    written,         \* names this invocation has written completely
    writeFailed,     \* the edge path's writeFile rejected
    created,         \* names that did not exist before this invocation wrote them
    escaped          \* an exception left the handler's own try/catch

vars == <<app, now, uploads, audioDir, edgeTTS, req, pc, uploadPath,
          textToConvert, voiceCode, outputFileName, timestamp, engineCall,
          responses, resolverCalls, readState, synth, written, writeFailed,
          created, escaped>>

(***************************************************************************)
(* Bounds                                                                  *)
(***************************************************************************)
NumReqs == 2
MaxTime == 1

Reqs == 1..NumReqs

(***************************************************************************)
(* JavaScript values.  undefined and the empty string are both falsy and   *)
(* the handler only ever applies || to the fields it reads, so an absent   *)
(* field and an empty one are the same value here.                         *)
(***************************************************************************)
Undefined == ""

Or(a, b) == IF a = Undefined THEN b ELSE a

\* String.prototype.toLowerCase on the strings the model feeds it.
ToLowerCase(s) ==
    CASE s = "EDGE" -> "edge"
      [] s = ".TXT" -> ".txt"
      [] OTHER -> s

\* path.extname on the file names the model uploads.
ExtName(name) ==
    CASE name = "a.txt" -> ".txt"
      [] name = "A.TXT" -> ".TXT"
      [] name = "b.mp3" -> ".mp3"
      [] OTHER -> ""

\* Properties every object literal inherits from Object.prototype; their
\* values are functions (or the prototype itself), all truthy.
ObjectPrototype ==
    [k \in {"constructor", "toString", "valueOf", "hasOwnProperty", "__proto__"}
        |-> "[Object.prototype." \o k \o "]"]

\* obj[key] for an object literal obj: own property, else inherited, else undefined.
GetProperty(obj, key) ==
    IF key \in DOMAIN obj THEN obj[key]
    ELSE IF key \in DOMAIN ObjectPrototype THEN ObjectPrototype[key]
    ELSE Undefined

(***************************************************************************)
(* multer                                                                  *)
(***************************************************************************)
FileFilter(originalname) == ToLowerCase(ExtName(originalname)) = ".txt"

UploadFileName(ts, originalname) == ToString(ts) \o "-" \o originalname

(***************************************************************************)
(* Voice mapping                                                           *)
(***************************************************************************)
VoiceKeys == {"en", "en-uk", "en-au", "hi", "fr", "es"}

maleVoices == [k \in VoiceKeys |-> IF k = "en" THEN "en-us" ELSE k]

femaleVoices == [k \in VoiceKeys |-> k]

SelectedVoice(rq) == Or(rq.voice, "en")

Gender(rq) == Or(rq.gender, "male")

Engine(rq) == ToLowerCase(Or(rq.engine, "gtts"))

VoiceCode(selectedVoice, gender) ==
    IF gender = "male"
    THEN Or(GetProperty(maleVoices, selectedVoice), selectedVoice)
    ELSE IF gender = "female"
    THEN Or(GetProperty(femaleVoices, selectedVoice), selectedVoice)
    ELSE selectedVoice

\* Mutation: the edge branch passes the mapped voice code instead of the raw voice.
EdgeVoiceResolved(rq) == VoiceCode(SelectedVoice(rq), Gender(rq))

EdgeVoice(rq) == Or(rq.voice, "en-US-AriaNeural")

\* Mutation: the name is built from a coarser clock reading.
OutputFileNameCoarse(ts) == "speech-" \o ToString(ts \div 2) \o ".mp3"

OutputFileName(ts) == "speech-" \o ToString(ts) \o ".mp3"

\* Mutation: the URL points into the uploads area, as the STT routes' URLs do.
PublicUrlUploads(fileName) == "/uploads/" \o fileName

PublicUrl(fileName) == "/audio/" \o fileName

(***************************************************************************)
(* Responses                                                               *)
(***************************************************************************)
NoInputResponse == [status |-> 400, body |-> "alert:No text or file provided", url |-> "", fileName |-> ""]

ErrorResponse == [status |-> 500, body |-> "alert:Error processing your request", url |-> "", fileName |-> ""]

SendErrorResponse == [status |-> 500, body |-> "alert:Error sending audio file", url |-> "", fileName |-> ""]

MiddlewareErrorResponse == [status |-> 500, body |-> "json:error", url |-> "", fileName |-> ""]

SuccessResponse(fileName) ==
    [status |-> 200, body |-> "json:success", url |-> PublicUrl(fileName), fileName |-> fileName]

FileResponse(fileName) == [status |-> 200, body |-> "file", url |-> "", fileName |-> fileName]

NoReq == [hasFile |-> FALSE, originalname |-> "", fileText |-> "", textInput |-> "",
          engine |-> "", voice |-> "", gender |-> ""]

NoCall == [engine |-> "", text |-> "", voice |-> ""]

Init ==
    /\ app \in {"part_000", "server"}
    /\ now = 0
    /\ uploads = {}
    /\ audioDir = {}
    /\ edgeTTS = FALSE
    /\ req = [r \in Reqs |-> NoReq]
    /\ pc = [r \in Reqs |-> "idle"]
    /\ uploadPath = [r \in Reqs |-> ""]
    /\ textToConvert = [r \in Reqs |-> ""]
    /\ voiceCode = [r \in Reqs |-> ""]
    /\ outputFileName = [r \in Reqs |-> ""]
    /\ timestamp = [r \in Reqs |-> 0]
    /\ engineCall = [r \in Reqs |-> NoCall]
    /\ responses = [r \in Reqs |-> <<>>]
    /\ resolverCalls = [r \in Reqs |-> 0]
    /\ readState = [r \in Reqs |-> "none"]
    /\ synth = [r \in Reqs |-> "none"]
    /\ written = [r \in Reqs |-> {}]
    /\ writeFailed = [r \in Reqs |-> FALSE]
    /\ created = [r \in Reqs |-> {}]
    /\ escaped = [r \in Reqs |-> FALSE]

(***************************************************************************)
(* File system                                                             *)
(***************************************************************************)
FileExists(dir, path) == \E f \in dir : f.path = path

ReadFile(dir, path) == (CHOOSE f \in dir : f.path = path).content

StoreFile(dir, path, content) ==
    {f \in dir : f.path # path} \cup {[path |-> path, content |-> content]}

Unlink(dir, path) == {f \in dir : f.path # path}

(***************************************************************************)
(* Pieces of the handler                                                   *)
(***************************************************************************)
Respond(r, response) ==
    responses' = [responses EXCEPT ![r] = Append(@, response)]

\* Mutation: the catch block logs the error and sends nothing.
CatchBlockSilent(r) ==
    /\ pc' = [pc EXCEPT ![r] = "done"]
    /\ UNCHANGED responses

\* catch (error) { res.status(500).send(...) }
CatchBlock(r) ==
    /\ Respond(r, ErrorResponse)
    /\ pc' = [pc EXCEPT ![r] = "done"]

\* return res.status(200).json({ success, url, fileName })
ReturnUrl(r) ==
    /\ Respond(r, SuccessResponse(outputFileName[r]))
    /\ pc' = [pc EXCEPT ![r] = "done"]

\* The engine invocation: edge gets the raw voice, gtts the mapped voice code.
\* server.js knows no engine field and always builds a gtts instance.
EngineInvocation(rq, text) ==
    IF app = "part_000" /\ Engine(rq) = "edge"
    THEN [engine |-> "edge", text |-> text, voice |-> EdgeVoice(rq)]
    ELSE [engine |-> "gtts", text |-> text,
          voice |-> VoiceCode(SelectedVoice(rq), Gender(rq))]

\* From the end of input selection to the await of the engine call.
BeginConversion(r, rq, text) ==
    /\ textToConvert' = [textToConvert EXCEPT ![r] = text]
    /\ voiceCode' = [voiceCode EXCEPT ![r] = VoiceCode(SelectedVoice(rq), Gender(rq))]
    /\ resolverCalls' = [resolverCalls EXCEPT ![r] = @ + 1]
    /\ timestamp' = [timestamp EXCEPT ![r] = now]
    /\ outputFileName' = [outputFileName EXCEPT ![r] = OutputFileName(now)]
    /\ engineCall' = [engineCall EXCEPT ![r] = EngineInvocation(rq, text)]
    /\ edgeTTS' = (edgeTTS \/ EngineInvocation(rq, text).engine = "edge")
    /\ synth' = [synth EXCEPT ![r] = "pending"]
    /\ pc' = [pc EXCEPT ![r] = "engine"]

\* A file appears (or is overwritten) under the invocation's output path.
WriteArtifact(r, complete) ==
    /\ audioDir' = audioDir \cup {outputFileName[r]}
    /\ created' = [created EXCEPT ![r] = @ \cup ({outputFileName[r]} \ audioDir)]
    /\ written' = [written EXCEPT ![r] =
                      IF complete THEN @ \cup {outputFileName[r]} ELSE @]

(***************************************************************************)
(* Actions                                                                 *)
(***************************************************************************)
\* upload.single('file') and the handler up to its first await or response.
Receive(r, inputs) ==
    /\ pc[r] = "idle"
    /\ \A q \in Reqs : q < r => pc[q] # "idle"   \* requests are numbered as they arrive
    /\ \E rq \in inputs :
        /\ req' = [req EXCEPT ![r] = rq]
        /\ IF rq.hasFile /\ ~FileFilter(rq.originalname)
           THEN \* cb(new Error('Only .txt files are allowed')) -> error middleware
                /\ Respond(r, MiddlewareErrorResponse)
                /\ pc' = [pc EXCEPT ![r] = "done"]
                /\ UNCHANGED <<uploads, uploadPath, readState, textToConvert, voiceCode,
                               resolverCalls, outputFileName, timestamp, engineCall, edgeTTS, synth>>
           ELSE IF rq.hasFile
           THEN /\ uploads' = StoreFile(uploads, UploadFileName(now, rq.originalname),
                                        rq.fileText)
                /\ uploadPath' = [uploadPath EXCEPT ![r] =
                                     UploadFileName(now, rq.originalname)]
                /\ readState' = [readState EXCEPT ![r] = "reading"]
                /\ pc' = [pc EXCEPT ![r] = "readFile"]
                /\ UNCHANGED <<responses, textToConvert, voiceCode, resolverCalls,
                               outputFileName, timestamp, engineCall, edgeTTS, synth>>
           ELSE IF rq.textInput # Undefined
           THEN /\ BeginConversion(r, rq, rq.textInput)
                /\ UNCHANGED <<responses, uploads, uploadPath, readState>>
           ELSE /\ Respond(r, NoInputResponse)
                /\ pc' = [pc EXCEPT ![r] = "done"]
                /\ UNCHANGED <<uploads, uploadPath, readState, textToConvert, voiceCode,
                               resolverCalls, outputFileName, timestamp, engineCall, edgeTTS, synth>>
    /\ UNCHANGED <<writeFailed, app, now, audioDir, written, created, escaped>>

\* await fs.promises.readFile(req.file.path, 'utf-8')
ReadFileDone(r) ==
    /\ pc[r] = "readFile"
    /\ \E ok \in BOOLEAN :
        /\ ok => FileExists(uploads, uploadPath[r])
        /\ IF ok
           THEN /\ textToConvert' = [textToConvert EXCEPT ![r] =
                                        ReadFile(uploads, uploadPath[r])]
                /\ readState' = [readState EXCEPT ![r] = "read"]
                /\ pc' = [pc EXCEPT ![r] = "unlink"]
                /\ UNCHANGED responses
           ELSE /\ readState' = [readState EXCEPT ![r] = "readFailed"]
                /\ CatchBlock(r)
                /\ UNCHANGED textToConvert
    /\ UNCHANGED <<writeFailed, app, now, uploads, audioDir, edgeTTS, req, uploadPath, voiceCode,
                   outputFileName, timestamp, engineCall, resolverCalls, synth, written, created,
                   escaped>>

\* Mutation: the upload is read but never unlinked.
UnlinkSkipped(r) ==
    /\ pc[r] = "unlink"
    /\ \E ok \in BOOLEAN :
        /\ ok => FileExists(uploads, uploadPath[r])
        /\ IF ok
           THEN /\ UNCHANGED uploads
                /\ readState' = [readState EXCEPT ![r] = "unlinked"]
                /\ BeginConversion(r, req[r], textToConvert[r])
                /\ UNCHANGED responses
           ELSE /\ readState' = [readState EXCEPT ![r] = "unlinkFailed"]
                /\ CatchBlock(r)
                /\ UNCHANGED <<uploads, textToConvert, voiceCode, resolverCalls,
                               outputFileName, timestamp, engineCall, edgeTTS, synth>>
    /\ UNCHANGED <<writeFailed, app, now, audioDir, req, uploadPath, written, created, escaped>>

\* await fs.promises.unlink(req.file.path), then on to the engine call
UnlinkDone(r) ==
    /\ pc[r] = "unlink"
    /\ \E ok \in BOOLEAN :
        /\ ok => FileExists(uploads, uploadPath[r])
        /\ IF ok
           THEN /\ uploads' = Unlink(uploads, uploadPath[r])
                /\ readState' = [readState EXCEPT ![r] = "unlinked"]
                /\ BeginConversion(r, req[r], textToConvert[r])
                /\ UNCHANGED responses
           ELSE /\ readState' = [readState EXCEPT ![r] = "unlinkFailed"]
                /\ CatchBlock(r)
                /\ UNCHANGED <<uploads, textToConvert, voiceCode, resolverCalls,
                               outputFileName, timestamp, engineCall, edgeTTS, synth>>
    /\ UNCHANGED <<writeFailed, app, now, audioDir, req, uploadPath, written, created, escaped>>

\* Mutation: the save callback resolves whether or not it received an error.
GttsSaveIgnoringError(r) ==
    /\ pc[r] = "engine"
    /\ engineCall[r].engine = "gtts"
    /\ \/ /\ synth' = [synth EXCEPT ![r] = "ok"]
          /\ WriteArtifact(r, TRUE)
          /\ IF app = "part_000"
             THEN ReturnUrl(r)
             ELSE /\ pc' = [pc EXCEPT ![r] = "sendFile"]
                  /\ UNCHANGED responses
       \/ /\ synth' = [synth EXCEPT ![r] = "failed"]
          /\ \/ WriteArtifact(r, FALSE)
             \/ UNCHANGED <<audioDir, created, written>>
          /\ IF app = "part_000"
             THEN ReturnUrl(r)
             ELSE /\ pc' = [pc EXCEPT ![r] = "sendFile"]
                  /\ UNCHANGED responses
    /\ UNCHANGED <<writeFailed, app, now, uploads, edgeTTS, req, uploadPath, textToConvert, voiceCode,
                   outputFileName, timestamp, engineCall, resolverCalls, readState, escaped>>

\* gttsInstance.save(outputPath, cb): the callback, with or without an error.
GttsSaveDone(r) ==
    /\ pc[r] = "engine"
    /\ engineCall[r].engine = "gtts"
    /\ \/ /\ synth' = [synth EXCEPT ![r] = "ok"]
          /\ WriteArtifact(r, TRUE)
          /\ IF app = "part_000"
             THEN ReturnUrl(r)
             ELSE /\ pc' = [pc EXCEPT ![r] = "sendFile"]
                  /\ UNCHANGED responses
       \/ /\ synth' = [synth EXCEPT ![r] = "failed"]
          /\ \/ WriteArtifact(r, FALSE)
             \/ UNCHANGED <<audioDir, created, written>>
          /\ CatchBlock(r)
    /\ UNCHANGED <<writeFailed, app, now, uploads, edgeTTS, req, uploadPath, textToConvert, voiceCode,
                   outputFileName, timestamp, engineCall, resolverCalls, readState, escaped>>

\* await edgeTTS.synthesize({ input, voice })
EdgeSynthesizeDone(r) ==
    /\ pc[r] = "engine"
    /\ engineCall[r].engine = "edge"
    /\ \/ /\ synth' = [synth EXCEPT ![r] = "ok"]
          /\ pc' = [pc EXCEPT ![r] = "writeFile"]
          /\ UNCHANGED responses
       \/ /\ synth' = [synth EXCEPT ![r] = "failed"]
          /\ CatchBlock(r)
    /\ UNCHANGED <<writeFailed, app, now, uploads, audioDir, edgeTTS, req, uploadPath, textToConvert,
                   voiceCode, outputFileName, timestamp, engineCall, resolverCalls, readState,
                   written, created, escaped>>

\* await fs.promises.writeFile(outputPath, Buffer.from(stream.audio))
WriteFileDone(r) ==
    /\ pc[r] = "writeFile"
    /\ \/ /\ WriteArtifact(r, TRUE)
          /\ ReturnUrl(r)
          /\ UNCHANGED writeFailed
       \/ /\ \/ WriteArtifact(r, FALSE)
             \/ UNCHANGED <<audioDir, created, written>>
          /\ writeFailed' = [writeFailed EXCEPT ![r] = TRUE]
          /\ CatchBlock(r)
    /\ UNCHANGED <<app, now, uploads, edgeTTS, req, uploadPath, textToConvert, voiceCode,
                   outputFileName, timestamp, engineCall, resolverCalls, readState, synth, escaped>>

\* server.js: the callback of res.sendFile(outputPath, cb)
SendFileDone(r) ==
    /\ pc[r] = "sendFile"
    /\ \/ \* sent: the callback goes on to unlink the file
          /\ outputFileName[r] \in audioDir
          /\ Respond(r, FileResponse(outputFileName[r]))
          /\ pc' = [pc EXCEPT ![r] = "cleanup"]
          /\ UNCHANGED escaped
       \/ \* failed before anything was sent: the callback answers 500
          /\ Respond(r, SendErrorResponse)
          /\ pc' = [pc EXCEPT ![r] = "done"]
          /\ UNCHANGED escaped
       \/ \* failed after the headers went out: res.status(500).send(...) throws
          \* in the callback, outside the handler's try/catch
          /\ outputFileName[r] \in audioDir
          /\ Respond(r, FileResponse(outputFileName[r]))
          /\ escaped' = [escaped EXCEPT ![r] = TRUE]
          /\ pc' = [pc EXCEPT ![r] = "done"]
    /\ UNCHANGED <<writeFailed, app, now, uploads, audioDir, edgeTTS, req, uploadPath, textToConvert,
                   voiceCode, outputFileName, timestamp, engineCall, resolverCalls, readState,
                   synth, written, created>>

\* server.js: await fs.promises.unlink(outputPath) inside its own try/catch
CleanupDone(r) ==
    /\ pc[r] = "cleanup"
    /\ \/ /\ outputFileName[r] \in audioDir
          /\ audioDir' = audioDir \ {outputFileName[r]}
       \/ UNCHANGED audioDir
    /\ pc' = [pc EXCEPT ![r] = "done"]
    /\ UNCHANGED <<writeFailed, app, now, uploads, edgeTTS, req, uploadPath, textToConvert, voiceCode,
                   outputFileName, timestamp, engineCall, responses, resolverCalls, readState,
                   synth, written, created, escaped>>

\* The clock Date.now() reads moves on.
Tick ==
    /\ now < MaxTime
    /\ now' = now + 1
    /\ UNCHANGED <<writeFailed, app, uploads, audioDir, edgeTTS, req, pc, uploadPath, textToConvert,
                   voiceCode, outputFileName, timestamp, engineCall, responses, resolverCalls,
                   readState, synth, written, created, escaped>>

(***************************************************************************)
(* Requests                                                                *)
(***************************************************************************)
Texts == {"", "  ", "Hi"}

InlineRequests(T, E, V, G) ==
    [hasFile : {FALSE}, originalname : {""}, fileText : {""}, textInput : T,
     engine : E, voice : V, gender : G]

FileRequests(N, T, E, V, G) ==
    [hasFile : {TRUE}, originalname : N, fileText : T, textInput : {""},
     engine : E, voice : V, gender : G]

\* Concurrent requests: inline and uploaded text, blank and not, both engines.
Requests ==
    InlineRequests(Texts, {"gtts"}, {"en"}, {"male"})
        \cup InlineRequests({"Hi"}, {"edge"}, {"en"}, {"male"})
        \cup FileRequests({"a.txt"}, {"Hi"}, {"gtts"}, {"en"}, {"male"})
        \cup FileRequests({"b.mp3"}, {"Hi"}, {"gtts"}, {"en"}, {"male"})

\* One request at a time: every engine, voice and gender value.
WideRequests ==
    InlineRequests({"", "Hi"}, {"", "gtts", "edge", "EDGE", "azure"},
                   {"", "en", "en-uk", "en-au", "hi", "fr", "es", "xx",
                    "en-US-AriaNeural", "constructor", "toString"},
                   {"", "male", "female", "other"})
        \cup FileRequests({"a.txt", "A.TXT", "b.mp3"}, Texts, {"gtts", "edge"},
                          {"en", "xx"}, {"", "female"})

Step(r) ==
    \/ ReadFileDone(r)
    \/ UnlinkDone(r)
    \/ GttsSaveDone(r)
    \/ EdgeSynthesizeDone(r)
    \/ WriteFileDone(r)
    \/ SendFileDone(r)
    \/ CleanupDone(r)

Next ==
    \/ \E r \in Reqs : Receive(r, Requests)
    \/ \E r \in Reqs : Step(r)
    \/ Tick

Spec == Init /\ [][Next]_vars

NextWide ==
    \/ Receive(1, WideRequests)
    \/ Step(1)
    \/ Tick

SpecWide == Init /\ [][NextWide]_vars

(***************************************************************************)
(* Vocabulary of the properties                                            *)
(***************************************************************************)
\* The handler ran (the upload filter did not turn the request away).
Handled(r) == pc[r] # "idle" /\ ~(req[r].hasFile /\ ~FileFilter(req[r].originalname))

Finished(r) == pc[r] = "done"

\* Empty after trimming, over the texts the requests carry.
Blank(text) == text \in {"", "  "}

HasStatus(r, status) == \E i \in 1..Len(responses[r]) : responses[r][i].status = status

Succeeded(r) == HasStatus(r, 200)

IsSpeechName(name) == \E k \in 0..MaxTime : name = "speech-" \o ToString(k) \o ".mp3"

EngineFailed(r) == synth[r] = "failed" \/ writeFailed[r]

\* The reference table of the voice mapping.
ReferenceVoice(voice, gender) ==
    IF voice = "en" /\ gender = "male" THEN "en-us" ELSE voice

\* The text the handler selected is known: inline, or read from the upload.
TextSelected(r) ==
    \/ ~req[r].hasFile
    \/ readState[r] \in {"read", "unlinked", "unlinkFailed"}

SelectedText(r) == IF req[r].hasFile THEN textToConvert[r] ELSE req[r].textInput

(***************************************************************************)
(* C1: a request whose text is empty or whitespace-only after trimming     *)
(* (inline with no upload, or read from the upload) ends with a 400        *)
(* response, invokes no engine and creates no file in the audio directory. *)
(***************************************************************************)
C1_BlankTextRejected ==
    \A r \in Reqs :
        (Handled(r) /\ Finished(r) /\ TextSelected(r) /\ Blank(SelectedText(r)))
            => /\ responses[r] = <<NoInputResponse>>
               /\ engineCall[r] = NoCall
               /\ created[r] = {}

(***************************************************************************)
(* C2 as stated: a gtts request with non-empty text whose synthesis        *)
(* succeeds makes exactly one new file appear in the audio directory,      *)
(* named speech-<number>.mp3, and answers with url /audio/<name> and       *)
(* fileName <name>.                                                        *)
(***************************************************************************)
C2_ExactlyOneNewFile ==
    \A r \in Reqs :
        (app = "part_000" /\ engineCall[r].engine = "gtts" /\ synth[r] = "ok"
            /\ textToConvert[r] # "")
            => /\ Cardinality(created[r]) = 1
               /\ IsSpeechName(outputFileName[r])
               /\ responses[r] = <<[status |-> 200, body |-> "json:success",
                                    url |-> "/audio/" \o outputFileName[r],
                                    fileName |-> outputFileName[r]]>>

(***************************************************************************)
(* C2 amended: such a request writes exactly one file, speech-<ts>.mp3     *)
(* for the timestamp ts it read, which is in the audio directory, and      *)
(* answers once, with url /audio/<name> and fileName <name>; the file is   *)
(* new unless another invocation computed the same name from the same      *)
(* timestamp.                                                              *)
(***************************************************************************)
C2_OneFileWritten ==
    \A r \in Reqs :
        (app = "part_000" /\ engineCall[r].engine = "gtts" /\ synth[r] = "ok"
            /\ textToConvert[r] # "")
            => /\ written[r] = {outputFileName[r]}
               /\ outputFileName[r] = "speech-" \o ToString(timestamp[r]) \o ".mp3"
               /\ IsSpeechName(outputFileName[r])
               /\ outputFileName[r] \in audioDir
               /\ responses[r] = <<[status |-> 200, body |-> "json:success",
                                    url |-> "/audio/" \o outputFileName[r],
                                    fileName |-> outputFileName[r]]>>
               /\ \/ created[r] = {outputFileName[r]}
                  \/ \E q \in Reqs \ {r} :
                        /\ outputFileName[q] = outputFileName[r]
                        /\ timestamp[q] = timestamp[r]

C2_Witness ==
    \E r \in Reqs :
        /\ app = "part_000" /\ engineCall[r].engine = "gtts" /\ synth[r] = "ok"
        /\ textToConvert[r] = "Hi"
        /\ created[r] = {outputFileName[r]}
        /\ Succeeded(r)

(***************************************************************************)
(* C3: the voice handed to gtts follows the reference table: (en, male)    *)
(* gives en-us, every other (voice, gender) pair gives the voice itself,   *)
(* in particular every voice that is not one of the six keys.              *)
(***************************************************************************)
C3_VoiceFollowsTable ==
    \A r \in Reqs :
        (engineCall[r].engine = "gtts" /\ Gender(req[r]) \in {"male", "female"})
            => engineCall[r].voice = ReferenceVoice(SelectedVoice(req[r]), Gender(req[r]))

(***************************************************************************)
(* C4: with a gender other than male and female (a missing one included)   *)
(* the resolved voice code is the one resolved for gender male.            *)
(***************************************************************************)
C4_GenderDefaultsToMale ==
    \A r \in Reqs :
        (resolverCalls[r] > 0 /\ req[r].gender \notin {"male", "female"})
            => voiceCode[r] = VoiceCode(SelectedVoice(req[r]), "male")

(***************************************************************************)
(* C5 as stated: on an edge request the voice mapping runs zero times.     *)
(***************************************************************************)
C5_ResolverNeverRuns ==
    \A r \in Reqs : engineCall[r].engine = "edge" => resolverCalls[r] = 0

(***************************************************************************)
(* C5 amended: on an edge request the voice mapping is still computed      *)
(* (once), but its result is never passed on: the Edge engine receives     *)
(* the requested voice verbatim, or en-US-AriaNeural when none is given.   *)
(***************************************************************************)
C5_EdgeGetsRawVoice ==
    \A r \in Reqs :
        engineCall[r].engine = "edge"
            => /\ resolverCalls[r] = 1
               /\ engineCall[r].voice =
                      (IF req[r].voice = "" THEN "en-US-AriaNeural" ELSE req[r].voice)

C5_Witness ==
    \E r \in Reqs :
        /\ engineCall[r].engine = "edge"
        /\ req[r].voice = "en"
        /\ voiceCode[r] = "en-us"
        /\ engineCall[r].voice = "en"

(***************************************************************************)
(* C6 as stated: any two invocations that both succeed computed different  *)
(* output file names, and neither overwrote a file of the other.           *)
(***************************************************************************)
C6_AlwaysDistinct ==
    \A r1, r2 \in Reqs :
        (r1 # r2 /\ Succeeded(r1) /\ Succeeded(r2))
            => /\ outputFileName[r1] # outputFileName[r2]
               /\ created[r1] # {} /\ created[r2] # {}

(***************************************************************************)
(* C6 amended: two successful invocations compute different file names    *)
(* exactly when the timestamps they read differ; with different            *)
(* timestamps they write two distinct files (both present while nothing    *)
(* deletes them), with the same timestamp they write the same file.        *)
(***************************************************************************)
C6_DistinctIffTimestampsDiffer ==
    \A r1, r2 \in Reqs :
        (r1 # r2 /\ Succeeded(r1) /\ Succeeded(r2))
            => /\ (timestamp[r1] # timestamp[r2]) <=> (outputFileName[r1] # outputFileName[r2])
               /\ (timestamp[r1] # timestamp[r2] /\ app = "part_000")
                     => /\ written[r1] \cap written[r2] = {}
                        /\ Cardinality(audioDir \cap (written[r1] \cup written[r2])) = 2
               /\ timestamp[r1] = timestamp[r2] => written[r1] = written[r2]

C6_Witness ==
    \E r1, r2 \in Reqs :
        /\ app = "part_000"
        /\ Succeeded(r1) /\ Succeeded(r2)
        /\ timestamp[r1] # timestamp[r2]
        /\ outputFileName[r1] # outputFileName[r2]
        /\ {outputFileName[r1], outputFileName[r2]} \subseteq audioDir

(***************************************************************************)
(* C7: a file an invocation has finished writing exists in every later     *)
(* state.                                                                  *)
(***************************************************************************)
C7_ArtifactNeverDeleted ==
    \A r \in Reqs : written[r] \subseteq audioDir

(***************************************************************************)
(* C8: an invocation never sends more than one response and has sent       *)
(* exactly one when it ends; if its engine call or its artifact write      *)
(* failed, that response is a 500, no success is sent, and the failure     *)
(* stays inside the handler.                                               *)
(***************************************************************************)
C8_ExactlyOneResult ==
    \A r \in Reqs :
        /\ Len(responses[r]) <= 1
        /\ Finished(r) => Len(responses[r]) = 1
        /\ (Finished(r) /\ EngineFailed(r))
              => /\ responses[r][1].status = 500
                 /\ ~Succeeded(r)
                 /\ ~escaped[r]

C8_Witness ==
    \E r1, r2 \in Reqs :
        /\ Finished(r1) /\ synth[r1] = "failed"
        /\ Finished(r2) /\ writeFailed[r2]
        /\ responses[r1] = <<ErrorResponse>>
        /\ responses[r2] = <<ErrorResponse>>

(***************************************************************************)
(* C9: a success response is sent only after the synthesis has completed   *)
(* without error and the artifact has been written completely by this      *)
(* invocation; an invocation whose Edge backend failed has written and     *)
(* created no file.                                                        *)
(***************************************************************************)
C9_SuccessAfterWrite ==
    \A r \in Reqs :
        /\ Succeeded(r) => /\ synth[r] = "ok"
                           /\ ~writeFailed[r]
                           /\ written[r] = {outputFileName[r]}
        /\ (engineCall[r].engine = "edge" /\ synth[r] = "failed")
              => /\ written[r] = {}
                 /\ created[r] = {}
                 /\ responses[r] = <<ErrorResponse>>

C9_Witness ==
    \E r1, r2 \in Reqs :
        /\ engineCall[r1].engine = "edge" /\ Succeeded(r1)
        /\ outputFileName[r1] \in audioDir
        /\ engineCall[r2].engine = "edge" /\ synth[r2] = "failed" /\ Finished(r2)

(***************************************************************************)
(* C10 as stated: whenever an invocation that carried an uploaded text     *)
(* file has finished, with success or with failure, its upload file no     *)
(* longer exists.                                                          *)
(***************************************************************************)
C10_UploadGoneWhenFinished ==
    \A r \in Reqs :
        (Handled(r) /\ req[r].hasFile /\ Finished(r))
            => ~FileExists(uploads, uploadPath[r])

(***************************************************************************)
(* C10 amended: the upload is unlinked right after it is read and before   *)
(* any engine is invoked: an invocation that has reached its engine call   *)
(* (and so every one that ends with a success or with an engine or         *)
(* storage failure) has deleted its upload, and the path stays absent      *)
(* unless a later request's upload is stored under the same name.  Only    *)
(* when the read or the unlink itself fails does the invocation end, with  *)
(* a 500, without having deleted the upload.                               *)
(***************************************************************************)
C10_UploadDeletedBeforeEngine ==
    \A r \in Reqs :
        (Handled(r) /\ req[r].hasFile)
            => /\ engineCall[r] # NoCall => readState[r] = "unlinked"
               /\ readState[r] = "unlinked"
                     => \/ ~FileExists(uploads, uploadPath[r])
                        \/ \E q \in Reqs :
                              /\ q > r
                              /\ uploadPath[q] = uploadPath[r]
                              /\ readState[q] # "unlinked"
               /\ (Finished(r) /\ readState[r] # "unlinked")
                     => /\ readState[r] \in {"readFailed", "unlinkFailed"}
                        /\ responses[r] = <<ErrorResponse>>
                        /\ engineCall[r] = NoCall

C10_Witness ==
    \E r \in Reqs :
        /\ req[r].hasFile /\ Finished(r) /\ Succeeded(r)
        /\ readState[r] = "unlinked"
        /\ ~FileExists(uploads, uploadPath[r])

====
